---- MODULE Spec2Model ----
(***************************************************************************)
(* Model of impet14/inverter-automator.                                    *)
(*                                                                         *)
(*   inverter_control.py  one-shot script: call_api(action) with the       *)
(*                        retry loop, the backoff sleep and the exit code. *)
(*   app.py               always-running service: DessMonitorAPI (login,   *)
(*                        _send_signed_command) shared by scheduled jobs.  *)
(*                                                                         *)
(* The two programs are separate processes; each has its own variables,    *)
(* its own next-state relation and its own specification.                  *)
(***************************************************************************)
EXTENDS Integers, Sequences, FiniteSets, TLC

(***************************************************************************)
(* Bounds of the model.                                                    *)
(***************************************************************************)
\* Largest value of INVERTER_MAX_RETRIES drawn from the environment.
MaxRetriesEnv == 3

\* Job firings of the scheduler that are followed, the jobs fired one at a time.
MaxFired == 3

\* The same while jobs overlap.
MaxFiredPar == 2

\* Token-invalid answers the server gives within one invocation of a command
\* (each one is a level of the recursion of _send_signed_command).
MaxDepth == 2

\* The same while jobs overlap.
MaxDepthPar == 1

\* Largest reading of the millisecond clock.
MaxClock == 1

(***************************************************************************)
(* inverter_control.py: configuration                                      *)
(***************************************************************************)
\* Retry(total=2, ...) of make_session: resends the adapter may add to one GET.
RETRY_TOTAL == 2

\* Keys of URL_CONFIG.
URL_CONFIG == {"read-status", "set-solar", "set-sbu"}

\* Actions given on the command line: the three of URL_CONFIG and one that is not.
Actions == URL_CONFIG \cup {"bogus"}

\* Values of INVERTER_TOKEN: unset (None) or a token.
TokenEnv == {"", "tok"}

\* Values of INVERTER_MAX_RETRIES: int() of the environment, any integer.
RetriesEnv == (-1)..MaxRetriesEnv

\* Values of INVERTER_BACKOFF_FACTOR: float() of the environment; 2.0 is the
\* default.
BackoffFactorEnv == {1, 2}

\* Values of INVERTER_MAX_BACKOFF_SLEEP (seconds); 60 is the default.
BackoffSleepEnv == {1, 60}

\* random.uniform(0.5, 1.5), in tenths.
Jitter == {5, 10, 15}

(***************************************************************************)
(* What the server (or the network) does with one GET on the wire.         *)
(*   neterr   connection error or timeout (RequestException)               *)
(*   http503  a status of status_forcelist (429, 500, 502, 503, 504)       *)
(*   http404  another non-2xx status                                       *)
(*   nonjson  2xx, body is not JSON                                        *)
(*   notobj   2xx, JSON that is not an object (data.get raises)            *)
(*   apierr   2xx, JSON object with err != 0                               *)
(*   ok       2xx, JSON object with err == 0                               *)
(***************************************************************************)
Outcomes == {"neterr", "http503", "http404", "nonjson", "notobj", "apierr", "ok"}

\* Outcomes the adapter's Retry policy resends on: connection errors and
\* the statuses of status_forcelist (GET is in allowed_methods).
RetriedByAdapter == {"neterr", "http503"}

VARIABLES
    \* ---- inverter_control.py ----
    INVERTER_TOKEN,     \* os.environ.get('INVERTER_TOKEN')
    MAX_RETRIES,        \* int(os.environ.get("INVERTER_MAX_RETRIES", "5"))
    BACKOFF_FACTOR,     \* float(os.environ.get("INVERTER_BACKOFF_FACTOR", "2.0"))
    MAX_BACKOFF_SLEEP,  \* int(os.environ.get("INVERTER_MAX_BACKOFF_SLEEP", "60"))
    action_to_run,      \* sys.argv[1]
    cpc,                \* position of the script
    attempt,            \* loop variable of call_api
    response,           \* outcome of the latest GET on the wire; once session.get
                        \* has ended, what it returned or raised
    retries_used,       \* resends the adapter made within the current session.get
    exit_code,          \* -1 while running, then the process's exit code
    calls,              \* session.get calls made
    wire,               \* GETs put on the wire
    last_call_wire,     \* GETs put on the wire by the latest session.get
    annotations,        \* '::error::' lines printed
    sleeps,             \* _sleep_with_backoff calls made
    sleep_prev,         \* sleep before the latest one, tenths of a second (-1: none)
    sleep_last,         \* latest sleep, tenths of a second (-1: none)
    jitter_prev,        \* jitter of sleep_prev, tenths
    jitter_last,        \* jitter of sleep_last, tenths
    got_ok,             \* some attempt received a 2xx JSON object with err == 0
    last_event,         \* "none", "attempt" or "sleep": the latest of the two
    url,                \* local url of call_api
    get_url,            \* the URL of the latest GET on the wire
    \* ---- app.py ----
    DESS_USERNAME,      \* os.environ.get('DESS_USERNAME'), "" when unset
    DESS_PASSWORD,      \* os.environ.get('DESS_PASSWORD'), "" when unset
    api_client,         \* TRUE once the DessMonitorAPI object exists (else None)
    token,              \* api_client.token
    key,                \* api_client.key
    overlap,            \* whether the firing times let two jobs run at once
    now,                \* int(time.time() * 1000)
    fired,              \* job firings so far
    issued,             \* logins the server has answered with a session so far
    history,            \* login() calls up to the first that returned True, and
                        \* whether one has returned True
    pc,                 \* per thread: its position
    depth,              \* per thread: recursion depth of _send_signed_command
    salt,               \* per thread: the local salt and the count of salts computed
    sign,               \* per thread: the local sign, HMAC of (key, params)
    result,             \* per thread: what the invocation returned
    seen                \* per thread: what its invocation has done so far
                        \* (counts, and the latest login, request and response)

ctlVars == <<INVERTER_TOKEN, MAX_RETRIES, BACKOFF_FACTOR, MAX_BACKOFF_SLEEP, action_to_run, cpc,
             attempt, response, retries_used, exit_code, calls, wire,
             last_call_wire, annotations, sleeps, sleep_prev, sleep_last,
             jitter_prev, jitter_last, got_ok, last_event, url, get_url>>

\* The environment and the command line: read once, never written.
ctlEnv == <<INVERTER_TOKEN, MAX_RETRIES, BACKOFF_FACTOR, MAX_BACKOFF_SLEEP,
            action_to_run>>

appVars == <<DESS_USERNAME, DESS_PASSWORD, api_client, token, key, overlap, now,
             fired, issued, history, pc, depth, salt, sign, result, seen>>

vars == <<ctlVars, appVars>>

Min(a, b) == IF a <= b THEN a ELSE b

(***************************************************************************)
(* inverter_control.py                                                     *)
(***************************************************************************)
\* No URL: url before line 134, get_url before the first GET.
NoUrl == [token |-> "", action |-> "none", val |-> "absent"]

\* URL_CONFIG[a]['url'].format(token=tok) (lines 46-74, 134): the token, the
\* action and the val of the query string; the other parameters are the same
\* in the three URLs.
UrlOfSolar(a, tok) == [token |-> tok, action |-> "ctrlDevice", val |-> "1"]
UrlOf(a, tok) ==
    CASE a = "read-status" ->
           [token |-> tok, action |-> "queryDeviceCtrlValue", val |-> "absent"]
      [] a = "set-solar" -> [token |-> tok, action |-> "ctrlDevice", val |-> "1"]
      [] a = "set-sbu" -> [token |-> tok, action |-> "ctrlDevice", val |-> "2"]
      [] OTHER -> NoUrl

CtlStart ==
    /\ INVERTER_TOKEN \in TokenEnv
    /\ MAX_RETRIES \in RetriesEnv
    /\ BACKOFF_FACTOR \in BackoffFactorEnv
    /\ MAX_BACKOFF_SLEEP \in BackoffSleepEnv
    /\ action_to_run \in Actions
    /\ cpc = "entry"
    /\ attempt = 0
    /\ response = "none"
    /\ retries_used = 0
    /\ exit_code = -1
    /\ calls = 0
    /\ wire = 0
    /\ last_call_wire = 0
    /\ annotations = 0
    /\ sleeps = 0
    /\ sleep_prev = -1
    /\ sleep_last = -1
    /\ jitter_prev = 0
    /\ jitter_last = 0
    /\ got_ok = FALSE
    /\ last_event = "none"
    /\ url = NoUrl
    /\ get_url = NoUrl

\* sys.exit(code): the process ends.
SysExit(code) ==
    /\ exit_code' = code
    /\ cpc' = "exited"

\* github_action_error_annotation(message): one '::error::' line.
github_action_error_annotation ==
    annotations' = annotations + 1

\* `action not in URL_CONFIG` (line 128), negated.
KnownActionAny(a) == TRUE
KnownAction(a) == a \in URL_CONFIG

\* `action in ('set-solar', 'set-sbu')` (line 143): the commands that are retried.
IsControlAll(a) == TRUE
IsControl(a) == a \in {"set-solar", "set-sbu"}

\* `attempt == MAX_RETRIES` (lines 153, 167, 184, 196): the last allowed attempt.
LastAttemptEarly == attempt + 1 >= MAX_RETRIES
LastAttempt == attempt = MAX_RETRIES

\* call_api, lines 123-143: the configuration checks, then the branch on action.
CallApiEntry ==
    /\ cpc = "entry"
    /\ IF INVERTER_TOKEN = ""
         THEN /\ github_action_error_annotation
              /\ SysExit(1)
              /\ UNCHANGED <<attempt, url>>
         ELSE IF ~KnownAction(action_to_run)
           THEN /\ github_action_error_annotation
                /\ SysExit(1)
                /\ UNCHANGED <<attempt, url>>
           ELSE /\ url' = UrlOf(action_to_run, INVERTER_TOKEN)
                /\ IF IsControl(action_to_run)
                     THEN /\ cpc' = "loop"
                          /\ attempt' = 1
                          /\ UNCHANGED <<exit_code, annotations>>
                     ELSE /\ cpc' = "get"
                          /\ UNCHANGED <<exit_code, annotations, attempt>>
    /\ UNCHANGED <<appVars, ctlEnv,
                   response, retries_used, calls, wire, last_call_wire, sleeps,
                   sleep_prev, sleep_last, jitter_prev, jitter_last, got_ok,
                   last_event, get_url>>

\* for attempt in range(1, MAX_RETRIES + 1): an exhausted (or empty) range
\* leaves the loop, call_api returns and the script ends with exit code 0.
LoopHead ==
    /\ cpc = "loop"
    /\ IF attempt <= MAX_RETRIES
         THEN /\ cpc' = "get"
              /\ UNCHANGED exit_code
         ELSE SysExit(0)
    /\ UNCHANGED <<appVars, ctlEnv,
                   attempt, response, retries_used, calls, wire, last_call_wire,
                   annotations, sleeps, sleep_prev, sleep_last, jitter_prev,
                   jitter_last, got_ok, last_event, url, get_url>>

\* session.get(url, timeout=REQUEST_TIMEOUT) through the adapter of
\* make_session: one GET on the wire per step. A connection error or a status
\* of status_forcelist is resent while resends remain (total=2); otherwise the
\* outcome is handed to call_api (raise_on_status=False hands over the last
\* response, exhausted connection errors raise a RequestException).
SessionGet ==
    /\ cpc = "get"
    /\ \E o \in Outcomes :
         /\ wire' = wire + 1
         /\ calls' = IF retries_used = 0 THEN calls + 1 ELSE calls
         /\ last_call_wire' = retries_used + 1
         /\ last_event' = "attempt"
         /\ get_url' = url
         /\ IF o \in RetriedByAdapter /\ retries_used < RETRY_TOTAL
              THEN /\ retries_used' = retries_used + 1
                   /\ response' = o
                   /\ UNCHANGED cpc
              ELSE /\ retries_used' = 0
                   /\ response' = o
                   /\ cpc' = "handle"
    /\ UNCHANGED <<appVars, ctlEnv,
                   attempt, exit_code, annotations, sleeps, sleep_prev, sleep_last,
                   jitter_prev, jitter_last, got_ok, url>>

\* The failed-attempt arm shared by the four failure branches of the retry
\* loop (lines 153-160, 167-174, 184-192, 196-203).
FailedAttempt ==
    IF LastAttempt
      THEN /\ github_action_error_annotation
           /\ SysExit(1)
      ELSE /\ cpc' = "backoff"
           /\ UNCHANGED <<exit_code, annotations>>

\* call_api, lines 149-203: what the retry loop does with the response.
ControlHandle ==
    /\ cpc = "handle"
    /\ IsControl(action_to_run)
    /\ CASE response \in {"http503", "http404", "nonjson", "apierr", "neterr"} ->
              /\ FailedAttempt
              /\ UNCHANGED got_ok
         [] response = "ok" ->
              /\ got_ok' = TRUE
              /\ SysExit(0)
              /\ UNCHANGED annotations
         [] response = "notobj" ->
              \* data.get raises AttributeError, which nothing catches
              /\ SysExit(1)
              /\ UNCHANGED <<annotations, got_ok>>
    /\ UNCHANGED <<appVars, ctlEnv,
                   attempt, response, retries_used, calls, wire, last_call_wire,
                   sleeps, sleep_prev, sleep_last, jitter_prev, jitter_last,
                   last_event, url, get_url>>

\* sleep_time of _sleep_with_backoff, in tenths of a second, jitter in tenths.
SleepTimeFlat(k, jitter) == Min(jitter, MAX_BACKOFF_SLEEP * 10)
SleepTimeUncapped(k, jitter) == (BACKOFF_FACTOR ^ (k - 1)) * jitter
SleepTime(k, jitter) ==
    Min((BACKOFF_FACTOR ^ (k - 1)) * jitter, MAX_BACKOFF_SLEEP * 10)

\* _sleep_with_backoff(attempt), then `continue`: the next iteration.
SleepWithBackoff ==
    /\ cpc = "backoff"
    /\ \E jitter \in Jitter :
         /\ sleep_last' = SleepTime(attempt, jitter)
         /\ jitter_last' = jitter
    /\ sleep_prev' = sleep_last
    /\ jitter_prev' = jitter_last
    /\ sleeps' = sleeps + 1
    /\ last_event' = "sleep"
    /\ attempt' = attempt + 1
    /\ cpc' = "loop"
    /\ UNCHANGED <<appVars, ctlEnv,
                   response, retries_used, exit_code, calls, wire, last_call_wire,
                   annotations, got_ok, url, get_url>>

\* call_api, lines 208-229: read-status, what the single attempt does with the
\* response.
ReadHandle ==
    /\ cpc = "handle"
    /\ ~IsControl(action_to_run)
    /\ CASE response \in {"http503", "http404", "neterr", "nonjson", "apierr"} ->
              /\ github_action_error_annotation
              /\ SysExit(1)
              /\ UNCHANGED got_ok
         [] response = "ok" ->
              /\ got_ok' = TRUE
              /\ SysExit(0)
              /\ UNCHANGED annotations
         [] response = "notobj" ->
              /\ SysExit(1)
              /\ UNCHANGED <<annotations, got_ok>>
    /\ UNCHANGED <<appVars, ctlEnv,
                   attempt, response, retries_used, calls, wire, last_call_wire,
                   sleeps, sleep_prev, sleep_last, jitter_prev, jitter_last,
                   last_event, url, get_url>>

CtlNext ==
    \/ CallApiEntry
    \/ LoopHead
    \/ SessionGet
    \/ ControlHandle
    \/ SleepWithBackoff
    \/ ReadHandle

(***************************************************************************)
(* app.py                                                                  *)
(***************************************************************************)
\* The jobs added to the scheduler (lines 181-183); each runs in a thread of
\* the scheduler's pool, at most one instance per job.
JobIds == {"set_solar_job", "set_sbu_job", "read_status_job"}

\* The module's own thread (import time) and the job threads.
Threads == {"main"} \cup JobIds

\* self.token = None, self.key = None.
NoneValue == 0

\* "" as a token or key in a login response.
EmptyString == 0 - 1

\* Truth value of `self.token`, `self.key`: None and "" are false. Tokens and
\* keys the server issues are the positive numbers.
Truthy(v) == v > 0

\* "ERR_TOKEN_INVALID" (line 120).
ERR_TOKEN_INVALID == 10005

\* The action each job passes to _send_signed_command (lines 134, 139).
JobAction(j) ==
    IF j = "read_status_job" THEN "queryDeviceCtrlValue" ELSE "ctrlDevice"

\* extra_params of each job: {"val": mode} for set_output_priority, None for
\* get_status (lines 134, 139, 166, 169).
HasValAlways(j) == TRUE
HasVal(j) == j \in {"set_solar_job", "set_sbu_job"}
JobVal(j) ==
    CASE j = "set_solar_job" -> "1"
      [] j = "set_sbu_job" -> "2"
      [] OTHER -> "absent"

\* What the login endpoint (or the network) does with one POST.
\*   neterr    RequestException (connection, timeout, non-2xx status)
\*   rejected  JSON with err != 0, or without "dat"
\*   ok        JSON with err == 0 and "dat"; dat holds a token, a key, both,
\*             or an empty key
LoginResponses ==
    { [kind |-> "neterr",   tok |-> "none",  key |-> "none"],
      [kind |-> "rejected", tok |-> "none",  key |-> "none"],
      [kind |-> "ok",       tok |-> "fresh", key |-> "fresh"],
      [kind |-> "ok",       tok |-> "fresh", key |-> "none"],
      [kind |-> "ok",       tok |-> "none",  key |-> "fresh"],
      [kind |-> "ok",       tok |-> "fresh", key |-> "empty"] }

\* What the command endpoint (or the network) does with one GET: a
\* RequestException, or JSON with err 0, err 10005 or another err.
CmdResponses ==
    { [kind |-> "neterr", err |-> 0],
      [kind |-> "json",   err |-> 0],
      [kind |-> "json",   err |-> 1],
      [kind |-> "json",   err |-> ERR_TOKEN_INVALID] }

\* The value dat.get(...) yields for a field of login response number n.
DatGet(field, n) ==
    CASE field = "fresh" -> n
      [] field = "empty" -> EmptyString
      [] OTHER -> NoneValue

\* params_for_signing (lines 99-105): the keys in the order they are written,
\* with the values that vary.
ParamsForSigning(action, saltValue, hasVal, val) ==
    [ keys   |-> <<"action", "devaddr", "devcode", "i18n", "id", "pn", "salt",
                   "sn", "source">> \o (IF hasVal THEN <<"val">> ELSE <<>>),
      action |-> action,
      salt   |-> saltValue,
      val    |-> IF hasVal THEN val ELSE "absent" ]

\* hmac.new(key, params, sha256).hexdigest(): an injective pairing.
Hmac(k, msg) == [key |-> k, msg |-> msg]

NoParams == ParamsForSigning("none", 0, FALSE, "absent")
NoSign == Hmac(NoneValue, NoParams)

\* The record of an invocation that has done nothing yet.
\*   logins    login() calls;  relogins: those made after a first request
\*   cmds      command requests sent
\*   invalids  responses with err 10005 received
\*   login     the latest login response, ret the value login() returned
\*   cmd       the latest command request, resp the latest response to one
NothingSeen ==
    [ logins |-> 0, relogins |-> 0, cmds |-> 0, invalids |-> 0,
      login |-> [kind |-> "none", tok |-> NoneValue, key |-> NoneValue],
      ret |-> "none",
      cmd |-> [token |-> NoneValue, sign |-> NoSign, query |-> NoParams,
               saltNo |-> 0],
      resp |-> [kind |-> "none", err |-> 0] ]

AppStart ==
    /\ DESS_USERNAME \in {"", "user"}
    /\ DESS_PASSWORD \in {"", "secret"}
    /\ api_client = FALSE
    /\ token = NoneValue
    /\ key = NoneValue
    /\ now = 0
    /\ fired = 0
    /\ issued = 0
    /\ history = [attempts |-> 0, success |-> FALSE]
    /\ pc = [t \in Threads |-> IF t = "main" THEN "boot" ELSE "idle"]
    /\ depth = [t \in Threads |-> 0]
    /\ salt = [t \in Threads |-> [value |-> 0, no |-> 0]]
    /\ sign = [t \in Threads |-> NoSign]
    /\ result = [t \in Threads |-> "pending"]
    /\ seen = [t \in Threads |-> NothingSeen]

\* `not DESS_USERNAME or not DESS_PASSWORD` (line 154).
CredentialsMissingBoth == DESS_USERNAME = "" /\ DESS_PASSWORD = ""
CredentialsMissing == DESS_USERNAME = "" \/ DESS_PASSWORD = ""

\* Lines 142-161 up to the call of login(): without both credentials there is
\* no client; with them the client is constructed logged out and logs in.
ModuleInit ==
    /\ pc["main"] = "boot"
    /\ IF CredentialsMissing
         THEN /\ api_client' = FALSE
              /\ pc' = [pc EXCEPT !["main"] = "done"]
         ELSE /\ api_client' = TRUE
              /\ pc' = [pc EXCEPT !["main"] = "post"]
    /\ token' = NoneValue
    /\ key' = NoneValue
    /\ UNCHANGED <<ctlVars, DESS_USERNAME, DESS_PASSWORD, overlap, now, fired, issued, history,
                   depth, salt, sign, result, seen>>

\* The job firings followed.
FiredBound == IF overlap THEN MaxFiredPar ELSE MaxFired

\* No job other than j is inside its function.
NoOtherJobRunning(j) ==
    \A k \in JobIds \ {j} : pc[k] \in {"idle", "done"}

\* The scheduler fires job j (lines 165-172, 181-184): without a client the job
\* returns at once, with one it enters _send_signed_command through
\* set_output_priority or get_status. The locals and the record of the jobs
\* that have returned are dropped.
StartJob(j) ==
    /\ pc["main"] = "done"
    /\ pc[j] \in {"idle", "done"}
    /\ fired < FiredBound
    /\ overlap \/ NoOtherJobRunning(j)
    /\ fired' = fired + 1
    /\ LET gone == {k \in JobIds : pc[k] \in {"idle", "done"}} IN
         /\ pc' = [k \in Threads |->
                     IF k = j THEN (IF api_client THEN "check" ELSE "done")
                     ELSE IF k \in gone THEN "idle" ELSE pc[k]]
         /\ depth' = [k \in Threads |-> IF k \in gone THEN 0 ELSE depth[k]]
         /\ salt' = [k \in Threads |->
                       IF k \in gone THEN [value |-> 0, no |-> 0] ELSE salt[k]]
         /\ sign' = [k \in Threads |-> IF k \in gone THEN NoSign ELSE sign[k]]
         /\ result' = [k \in Threads |->
                         IF k = j THEN (IF api_client THEN "pending" ELSE "skipped")
                         ELSE IF k \in gone THEN "pending" ELSE result[k]]
         /\ seen' = [k \in Threads |-> IF k \in gone THEN NothingSeen ELSE seen[k]]
    /\ UNCHANGED <<ctlVars, DESS_USERNAME, DESS_PASSWORD, api_client, token, key, overlap,
                   now, issued, history>>

\* The millisecond clock advances. The clock is read in one place only, the
\* salt of line 96, so it is followed only while some thread is about to read it.
Tick ==
    /\ now < MaxClock
    /\ \E t \in Threads : pc[t] = "sign"
    /\ now' = now + 1
    /\ UNCHANGED <<ctlVars, DESS_USERNAME, DESS_PASSWORD, api_client, token, key, overlap,
                   fired, issued, history, pc, depth, salt, sign, result, seen>>

\* The shared part of every step of thread t that ends its invocation.
Finish(t, value) ==
    /\ pc' = [pc EXCEPT ![t] = "done"]
    /\ result' = [result EXCEPT ![t] = value]

\* _send_signed_command, line 91: `not self.token or not self.key`, negated.
ValidSessionNever == FALSE
ValidSession == Truthy(token) /\ Truthy(key)

\* _send_signed_command, line 91: a session that is not valid sends the thread
\* into login().
CheckSession(t) ==
    /\ pc[t] = "check"
    /\ pc' = [pc EXCEPT ![t] = IF ValidSession THEN "sign" ELSE "post"]
    /\ UNCHANGED <<ctlVars, DESS_USERNAME, DESS_PASSWORD, api_client, token, key, overlap,
                   now, fired, issued, history, depth, salt, sign, result, seen>>

\* login(), lines 61-77: the POST and its answer. A response with err == 0 and
\* "dat" stores dat.get("token") in self.token; any other outcome stores
\* nothing and leads to `return False`.
LoginPost(t) ==
    /\ pc[t] = "post"
    /\ \E r \in LoginResponses :
         LET n == issued + 1 IN
         /\ seen' = [seen EXCEPT
                ![t].logins = @ + 1,
                ![t].relogins = IF seen[t].cmds > 0 THEN @ + 1 ELSE @,
                ![t].login = [kind |-> r.kind, tok |-> DatGet(r.tok, n),
                              key |-> DatGet(r.key, n)],
                ![t].ret = "none"]
         /\ IF r.kind = "ok"
              THEN /\ token' = DatGet(r.tok, n)
                   /\ issued' = n
                   /\ pc' = [pc EXCEPT ![t] = "store_key"]
              ELSE /\ pc' = [pc EXCEPT ![t] = "login_ret"]
                   /\ UNCHANGED <<token, issued>>
    /\ history' = IF history.success THEN history
                   ELSE [history EXCEPT !.attempts = @ + 1]
    /\ UNCHANGED <<ctlVars, DESS_USERNAME, DESS_PASSWORD, api_client, key, overlap, now,
                   fired, depth, salt, sign, result>>

\* login(), line 78: self.key = data["dat"].get("key").
LoginStoreKey(t) ==
    /\ pc[t] = "store_key"
    /\ key' = seen[t].login.key
    /\ pc' = [pc EXCEPT ![t] = "login_ret"]
    /\ UNCHANGED <<ctlVars, DESS_USERNAME, DESS_PASSWORD, api_client, token, overlap, now,
                   fired, issued, history, depth, salt, sign, result, seen>>

\* The value login() returns: True after a response with err == 0 and "dat"
\* when self.token and self.key are both true (line 79), False otherwise
\* (lines 84, 87).
LoginValueOnToken(t) == seen[t].login.kind = "ok" /\ Truthy(token)
LoginValue(t) ==
    /\ seen[t].login.kind = "ok"
    /\ Truthy(token)
    /\ Truthy(key)

\* What _send_signed_command does after login() returned False (lines 92-94):
\* TRUE when it aborts with `return None`.
AbortsNever(ret) == FALSE
Aborts(ret) == ~ret

\* login() returns, lines 79-87, and its caller goes on: the module (lines
\* 160-161) only logs; _send_signed_command (lines 92-94) returns None after
\* False and goes on to sign after True.
LoginReturn(t) ==
    /\ pc[t] = "login_ret"
    /\ LET ret == LoginValue(t) IN
         /\ seen' = [seen EXCEPT ![t].ret = IF ret THEN "True" ELSE "False"]
         /\ history' = IF ret THEN [history EXCEPT !.success = TRUE] ELSE history
         /\ IF t = "main"
              THEN Finish(t, IF ret THEN "True" ELSE "False")
              ELSE IF Aborts(ret)
                THEN Finish(t, "None")
                ELSE /\ pc' = [pc EXCEPT ![t] = "sign"]
                     /\ UNCHANGED result
    /\ UNCHANGED <<ctlVars, DESS_USERNAME, DESS_PASSWORD, api_client, token, key, overlap,
                   now, fired, issued, depth, salt, sign>>

\* _send_signed_command, lines 96-108: the salt, the parameter string and its
\* HMAC under self.key. With self.key None, self.key.encode raises
\* AttributeError, which nothing catches: the invocation ends there.
SignCommand(t) ==
    /\ pc[t] = "sign"
    /\ LET s == [value |-> now, no |-> salt[t].no + 1]
           params == ParamsForSigning(JobAction(t), s.value, HasVal(t), JobVal(t))
       IN
         /\ salt' = [salt EXCEPT ![t] = s]
         /\ IF key = NoneValue
              THEN /\ Finish(t, "raised")
                   /\ UNCHANGED sign
              ELSE /\ sign' = [sign EXCEPT ![t] = Hmac(key, params)]
                   /\ pc' = [pc EXCEPT ![t] = "send"]
                   /\ UNCHANGED result
    /\ UNCHANGED <<ctlVars, DESS_USERNAME, DESS_PASSWORD, api_client, token, key, overlap,
                   now, fired, issued, history, depth, seen>>

\* _send_signed_command, lines 111-114: final_url is built from self.token, the
\* sign and params_for_signing, and the GET leaves.
SendCommand(t) ==
    /\ pc[t] = "send"
    /\ seen' = [seen EXCEPT
           ![t].cmds = @ + 1,
           ![t].cmd = [token |-> token, sign |-> sign[t],
                       query |-> ParamsForSigning(JobAction(t), salt[t].value,
                                                  HasVal(t), JobVal(t)),
                       saltNo |-> salt[t].no]]
    /\ pc' = [pc EXCEPT ![t] = "recv"]
    /\ UNCHANGED <<ctlVars, DESS_USERNAME, DESS_PASSWORD, api_client, token, key, overlap,
                   now, fired, issued, history, depth, salt, sign, result>>

\* The token-invalid answers followed within one invocation.
DepthBound == IF overlap THEN MaxDepthPar ELSE MaxDepth

\* `data.get("err") == 10005` (line 120).
IsTokenInvalidAnyErr(r) == r.kind = "json" /\ r.err # 0
IsTokenInvalid(r) == r.kind = "json" /\ r.err = ERR_TOKEN_INVALID

\* self.token after a token-invalid answer: `self.token = None` (line 122).
TokenKept == token
TokenAfterInvalid == NoneValue

\* _send_signed_command, lines 114-128: the answer to the GET. A
\* RequestException returns None; err 10005 sets self.token to None and calls
\* _send_signed_command again (line 123), whatever the depth of the recursion:
\* the call carries no count of the retries made; any other JSON is returned.
ReceiveResponse(t) ==
    /\ pc[t] = "recv"
    /\ \E r \in CmdResponses :
         /\ r.err = ERR_TOKEN_INVALID => depth[t] < DepthBound
         /\ seen' = [seen EXCEPT
                ![t].invalids = IF r.err = ERR_TOKEN_INVALID THEN @ + 1 ELSE @,
                ![t].resp = r]
         /\ IF r.kind = "neterr"
              THEN /\ Finish(t, "None")
                   /\ UNCHANGED <<token, depth>>
              ELSE IF IsTokenInvalid(r)
                THEN /\ token' = TokenAfterInvalid
                     /\ depth' = [depth EXCEPT ![t] = @ + 1]
                     /\ pc' = [pc EXCEPT ![t] = "check"]
                     /\ UNCHANGED result
                ELSE /\ Finish(t, "data")
                     /\ UNCHANGED <<token, depth>>
    /\ UNCHANGED <<ctlVars, DESS_USERNAME, DESS_PASSWORD, api_client, key, overlap, now,
                   fired, issued, history, salt, sign>>

AppNext ==
    \/ ModuleInit
    \/ Tick
    \/ \E j \in JobIds : StartJob(j)
    \/ \E t \in Threads : CheckSession(t)
    \/ \E t \in Threads : LoginPost(t)
    \/ \E t \in Threads : LoginStoreKey(t)
    \/ \E t \in Threads : LoginReturn(t)
    \/ \E t \in Threads : SignCommand(t)
    \/ \E t \in Threads : SendCommand(t)
    \/ \E t \in Threads : ReceiveResponse(t)

(***************************************************************************)
(* Specifications.                                                         *)
(*   SpecCtl     inverter_control.py, one run of the script.               *)
(*   SpecApp     app.py, jobs fired one at a time: each job has returned   *)
(*               before the next one fires.                                *)
(*   SpecAppPar  app.py, jobs that overlap in the scheduler's thread pool. *)
(*   SpecBoth    both programs, for the claims that speak of both.         *)
(***************************************************************************)
\* inverter_control.py while it is not run: one fixed configuration.
CtlOff ==
    /\ CtlStart
    /\ INVERTER_TOKEN = ""
    /\ MAX_RETRIES = 0
    /\ BACKOFF_FACTOR = 2
    /\ MAX_BACKOFF_SLEEP = 60
    /\ action_to_run = "read-status"

\* app.py before it is imported, credentials unset.
AppOff ==
    /\ AppStart
    /\ overlap = FALSE
    /\ DESS_USERNAME = ""
    /\ DESS_PASSWORD = ""

CtlInit == CtlStart /\ AppOff

AppInit == AppStart /\ overlap = FALSE /\ CtlOff

AppParInit == AppStart /\ overlap = TRUE /\ CtlOff

SpecCtl == CtlInit /\ [][CtlNext]_vars

SpecApp == AppInit /\ [][AppNext]_vars

SpecAppPar == AppParInit /\ [][AppNext]_vars

\* The two programs side by side, each in its own process: one of them is
\* configured, the other one runs without its token or its credentials.
BothInit == CtlInit \/ AppInit

BothNext ==
    \/ CallApiEntry
    \/ LoopHead
    \/ SessionGet
    \/ ControlHandle
    \/ SleepWithBackoff
    \/ ReadHandle
    \/ ModuleInit
    \/ Tick
    \/ \E j \in JobIds : StartJob(j)
    \/ \E t \in Threads : CheckSession(t)
    \/ \E t \in Threads : LoginPost(t)
    \/ \E t \in Threads : LoginStoreKey(t)
    \/ \E t \in Threads : LoginReturn(t)
    \/ \E t \in Threads : SignCommand(t)
    \/ \E t \in Threads : SendCommand(t)
    \/ \E t \in Threads : ReceiveResponse(t)

SpecBoth == BothInit /\ [][BothNext]_vars

(***************************************************************************)
(* Claims about inverter_control.py, checked under SpecCtl.                *)
(***************************************************************************)
\* The failures the retry loop counts as a failed attempt.
ListedFailures == {"http503", "http404", "nonjson", "apierr", "neterr"}

\* A mutating command with a token configured and a positive attempt count.
ControlRun ==
    /\ action_to_run \in {"set-solar", "set-sbu"}
    /\ INVERTER_TOKEN # ""
    /\ MAX_RETRIES >= 1

\* C2: set-solar or set-sbu against a server that fails every attempt makes
\* exactly MAX_RETRIES attempts (session.get calls), never more, and then exits
\* non-zero; with MAX_RETRIES = 3 that is exactly 3 attempts.
C2_ExactlyMaxRetriesAttempts ==
    ControlRun =>
        /\ calls <= MAX_RETRIES
        /\ (cpc = "exited" /\ response \in ListedFailures) =>
              /\ calls = MAX_RETRIES
              /\ exit_code = 1
              /\ (MAX_RETRIES = 3 => calls = 3)

\* C2 witness: three failed attempts of a mutating command, then the exit.
C2_Witness ==
    /\ ControlRun
    /\ MAX_RETRIES = 3
    /\ cpc = "exited"
    /\ response = "http503"
    /\ calls = 3
    /\ exit_code = 1

\* C3: for every action and every integer MAX_RETRIES, the script ends with
\* exit code 0 only if some attempt received a 2xx JSON response with
\* err == 0; in every other case it exits non-zero.
C3_ExitZeroOnlyAfterOk ==
    cpc = "exited" => (exit_code = 0 <=> got_ok)

\* C4: every backoff sleep is strictly longer than the one before it, for
\* every jitter drawn.
C4_SleepsStrictlyIncreasing ==
    sleep_prev >= 0 => sleep_last > sleep_prev

\* C4 as amended: with BACKOFF_FACTOR > 1, a backoff sleep is strictly longer
\* than the one before it whenever its jitter is at least the earlier jitter
\* and it is below the cap MAX_BACKOFF_SLEEP.
C4_SleepsIncreaseForEqualJitterBelowCap ==
    ( /\ sleep_prev >= 0
      /\ BACKOFF_FACTOR > 1
      /\ jitter_last >= jitter_prev
      /\ sleep_last < MAX_BACKOFF_SLEEP * 10 )
    => sleep_last > sleep_prev

\* C4 witness: two consecutive sleeps, the later one below the cap and drawn
\* with at least the earlier jitter.
C4_Witness ==
    /\ sleeps >= 2
    /\ sleep_prev >= 0
    /\ BACKOFF_FACTOR > 1
    /\ jitter_last >= jitter_prev
    /\ sleep_last < MAX_BACKOFF_SLEEP * 10
    /\ sleep_last > sleep_prev

\* read-status with a token configured.
ReadRun ==
    /\ action_to_run = "read-status"
    /\ INVERTER_TOKEN # ""

\* C8: read-status issues exactly one request, whatever MAX_RETRIES is, never
\* sleeps for backoff, and any failure of that request ends the script at once
\* with a non-zero exit.
C8_ReadStatusOneRequest ==
    ReadRun =>
        /\ wire <= 1
        /\ sleeps = 0
        /\ cpc = "exited" => (wire = 1 /\ (exit_code = 0 <=> response = "ok"))

\* C8 as amended: read-status makes exactly one session.get call, whatever
\* MAX_RETRIES is, and never calls _sleep_with_backoff; any failure of that call
\* ends the script at once with a non-zero exit. Within the call the session's
\* Retry policy resends the GET, at most RETRY_TOTAL times, and only after a
\* connection error or a status of status_forcelist.
C8_ReadStatusOneCall ==
    ReadRun =>
        /\ calls <= 1
        /\ wire <= 1 + RETRY_TOTAL
        /\ sleeps = 0
        /\ cpc \notin {"loop", "backoff"}
        /\ (cpc = "get" /\ wire > 0) => response \in RetriedByAdapter
        /\ cpc = "exited" =>
              /\ calls = 1
              /\ exit_code \in {0, 1}
              /\ (exit_code = 0 <=> response = "ok")

\* C8 witness: a read-status whose one call was resent twice by the adapter and
\* then failed.
C8_Witness ==
    /\ ReadRun
    /\ MAX_RETRIES = 3
    /\ cpc = "exited"
    /\ calls = 1
    /\ wire = 3
    /\ response = "http503"
    /\ exit_code = 1

\* C9: with INVERTER_TOKEN missing or an action outside URL_CONFIG, call_api
\* exits non-zero at once: no HTTP request, no backoff sleep.
C9_ConfigurationErrorIsFatal ==
    (INVERTER_TOKEN = "" \/ action_to_run \notin URL_CONFIG) =>
        /\ wire = 0
        /\ calls = 0
        /\ sleeps = 0
        /\ cpc \in {"entry", "exited"}
        /\ cpc = "exited" => exit_code = 1

\* C9 witness: the script has exited on an unknown action, token configured.
C9_Witness ==
    /\ INVERTER_TOKEN # ""
    /\ action_to_run \notin URL_CONFIG
    /\ cpc = "exited"
    /\ exit_code = 1
    /\ wire = 0

\* C15: every backoff sleep is capped: the interval slept by
\* _sleep_with_backoff(k), for every attempt number k >= 1 and every jitter,
\* equals min(BACKOFF_FACTOR^(k-1) * jitter, MAX_BACKOFF_SLEEP) and never
\* exceeds MAX_BACKOFF_SLEEP (tenths of a second on both sides; the sleep
\* after attempt k leaves attempt = k + 1).
C15_SleepIsCappedMin ==
    sleeps > 0 =>
        LET k == attempt - 1
            raw == (BACKOFF_FACTOR ^ (k - 1)) * jitter_last
            cap == MAX_BACKOFF_SLEEP * 10
        IN
        /\ k >= 1
        /\ sleep_last = IF raw <= cap THEN raw ELSE cap
        /\ sleep_last <= cap

\* C15 witness: a sleep that the cap has cut short.
C15_Witness ==
    /\ sleeps = 2
    /\ (BACKOFF_FACTOR ^ (attempt - 2)) * jitter_last > MAX_BACKOFF_SLEEP * 10
    /\ sleep_last = MAX_BACKOFF_SLEEP * 10

\* C16: every terminal failure of call_api is reported before the process
\* exits: a run that has ended with a non-zero exit code has emitted exactly
\* one '::error::' annotation, while a run that has not ended (its failed
\* attempts were not the last one) and a run that ended with exit code 0 have
\* emitted none.
C16_TerminalFailureAnnotated ==
    /\ (cpc = "exited" /\ exit_code # 0) => annotations = 1
    /\ (cpc = "exited" /\ exit_code = 0) => annotations = 0
    /\ cpc # "exited" => annotations = 0

\* C19: within one invocation of set-solar or set-sbu the events are ordered
\* attempt, sleep, attempt, ...: exactly one backoff sleep follows each failed
\* attempt that is not the last allowed one (so the run ends after a failed
\* attempt only when that attempt was number MAX_RETRIES), no sleep follows the
\* last allowed attempt or a successful one, and after the first attempt that
\* receives err == 0 no further request is sent.
C19_AttemptSleepAlternate ==
    ControlRun =>
        /\ sleeps <= calls
        /\ calls <= sleeps + 1
        /\ last_event = "sleep" <=> (calls >= 1 /\ sleeps = calls)
        /\ cpc = "backoff" => (response # "ok" /\ calls < MAX_RETRIES)
        /\ cpc = "exited" =>
              /\ last_event = "attempt"
              /\ sleeps = calls - 1
              /\ response # "ok" => calls = MAX_RETRIES
        /\ got_ok => (cpc = "exited" /\ response = "ok")

(***************************************************************************)
(* Claims about app.py. SpecApp fires the jobs one at a time; SpecAppPar   *)
(* lets them overlap.                                                      *)
(***************************************************************************)
\* C1: one invocation of a command sends at most two command requests and
\* logs in again at most once, also when the server answers err 10005 to
\* every command request.
C1_AtMostOneRetry ==
    \A j \in JobIds : seen[j].cmds <= 2 /\ seen[j].relogins <= 1

\* C5: under every interleaving of the jobs, every command request that leaves
\* _send_signed_command carries a non-empty token and a signature computed
\* with a non-empty key.
C5_NoCommandWithoutSession ==
    \A j \in JobIds :
        seen[j].cmds > 0 =>
            /\ Truthy(seen[j].cmd.token)
            /\ Truthy(seen[j].cmd.sign.key)

\* C6: when a command is invoked without a valid session and the login it
\* triggers fails, the command is aborted: _send_signed_command returns None,
\* no command request is sent (none after the requests that were answered with
\* err 10005, none at all when the invocation started logged out), and the
\* session is still logged out.
C6_FailedLoginAbortsCommand ==
    \A j \in JobIds :
        seen[j].ret = "False" =>
            /\ pc[j] = "done"
            /\ result[j] = "None"
            /\ seen[j].cmds = seen[j].invalids
            /\ (seen[j].relogins = 0 => seen[j].cmds = 0)
            /\ ~(Truthy(token) /\ Truthy(key))

\* C6 witness: a job that started logged out, whose login was rejected or
\* failed on the network, has returned None without a request.
C6_Witness ==
    \E j \in JobIds :
        /\ seen[j].ret = "False"
        /\ seen[j].login.kind \in {"neterr", "rejected"}
        /\ seen[j].logins = 1
        /\ seen[j].cmds = 0
        /\ result[j] = "None"

\* C7: when the server answers a command with err 10005 exactly once and then
\* succeeds, the invocation has sent two command requests with exactly one
\* login between them; the second request carries the token and is signed with
\* the key of that login, with the salt computed for it, and the caller gets
\* the successful response.
C7_OneReloginOneRetry ==
    \A j \in JobIds :
        ( /\ pc[j] = "done"
          /\ seen[j].invalids = 1
          /\ seen[j].resp = [kind |-> "json", err |-> 0] )
        =>
            /\ seen[j].cmds = 2
            /\ seen[j].relogins = 1
            /\ seen[j].ret = "True"
            /\ Truthy(seen[j].cmd.token)
            /\ Truthy(seen[j].cmd.sign.key)
            /\ seen[j].cmd.token = seen[j].login.tok
            /\ seen[j].cmd.sign.key = seen[j].login.key
            /\ seen[j].cmd.saltNo = 2
            /\ seen[j].cmd.sign.msg.salt = salt[j].value
            /\ seen[j].cmd.query.salt = salt[j].value
            /\ result[j] = "data"

\* C7 witness: a job that was logged in, got err 10005, logged in again and
\* got err 0 for its second request.
C7_Witness ==
    \E j \in JobIds :
        /\ pc[j] = "done"
        /\ seen[j].invalids = 1
        /\ seen[j].resp = [kind |-> "json", err |-> 0]
        /\ seen[j].logins = 1
        /\ seen[j].cmds = 2
        /\ result[j] = "data"

\* The value login() returned to thread t is still the news: nothing has
\* touched the session since (the module's login: no job has fired; a job's
\* login: the job has not been answered err 10005 since).
JustReturned(t) ==
    /\ seen[t].ret # "none"
    /\ IF t = "main" THEN fired = 0 ELSE pc[t] \notin {"check", "post"}

\* C10: login() returns True exactly when the response has err == 0 and
\* supplies a non-empty token and a non-empty key, and these are then the
\* stored session; when login() returns False the client does not hold both a
\* token and a key.
C10_LoginReturnValue ==
    \A t \in Threads :
        seen[t].ret # "none" =>
            /\ seen[t].ret = "True" <=>
                  ( /\ seen[t].login.kind = "ok"
                    /\ seen[t].login.tok > 0
                    /\ seen[t].login.key > 0 )
            /\ (JustReturned(t) /\ seen[t].ret = "True") =>
                  (token = seen[t].login.tok /\ key = seen[t].login.key)
            /\ (JustReturned(t) /\ seen[t].ret = "False") =>
                  ~(Truthy(token) /\ Truthy(key))

\* C10 witness: a job's login has just returned True and the session is the
\* response's token and key.
C10_Witness ==
    \E j \in JobIds :
        /\ pc[j] = "sign"
        /\ seen[j].ret = "True"
        /\ seen[j].relogins = 1
        /\ token = seen[j].login.tok
        /\ key = seen[j].login.key

\* login() calls job j made before its first command request.
LoginsBeforeCommand(j) == seen[j].logins - seen[j].relogins

\* Some thread is inside login(), past the answer to its POST.
InLogin == \E t \in Threads : pc[t] \in {"store_key", "login_ret"}

\* The part of C11 about the jobs: a job logs in only while the client holds no
\* token or no key, at most once before its first command request, and a job
\* that has returned has either logged in once first or sent its command
\* without logging in.
LazyLogin ==
    \A j \in JobIds :
        /\ LoginsBeforeCommand(j) <= 1
        /\ pc[j] = "post" => ~(Truthy(token) /\ Truthy(key))
        /\ (pc[j] = "done" /\ api_client) =>
              \/ LoginsBeforeCommand(j) = 1
              \/ LoginsBeforeCommand(j) = 0 /\ seen[j].cmds >= 1
        /\ seen[j].cmds >= 1 => history.attempts >= 1

\* C11: login is re-attempted lazily, once per job invocation, until it
\* succeeds: each job that finds the client logged out makes exactly one login
\* attempt before it would send its command, no command request is sent and no
\* token is held by the client before the first login that returns True, and
\* jobs that find the client logged in send their commands without logging in.
C11_LazyLoginNoTokenBeforeSuccess ==
    /\ LazyLogin
    /\ ~history.success =>
          /\ \A j \in JobIds : seen[j].cmds = 0
          /\ ~InLogin => ~Truthy(token)

\* C11 as amended: the same, with "no token" replaced by "no session": before
\* the first login that returns True the client never holds a token together
\* with a key (a response with err == 0 and a token but no key leaves its
\* token in self.token although login() returns False).
C11_LazyLoginNoSessionBeforeSuccess ==
    /\ LazyLogin
    /\ ~history.success =>
          /\ \A j \in JobIds : seen[j].cmds = 0
          /\ ~InLogin => ~(Truthy(token) /\ Truthy(key))

\* C11 witness: the login of the module and the login of the first job failed,
\* the login of the second job was the third attempt and the first to succeed,
\* and the third job has sent its command without logging in.
C11_Witness ==
    /\ history.attempts = 3
    /\ history.success
    /\ fired = 3
    /\ \E j \in JobIds :
           /\ pc[j] = "done"
           /\ seen[j].logins = 0
           /\ seen[j].cmds = 1
           /\ result[j] = "data"

\* The keys every parameter string starts with, in the order of lines 100-102.
FixedKeys ==
    <<"action", "devaddr", "devcode", "i18n", "id", "pn", "salt", "sn", "source">>

\* C12: the signature of every command request is computed over exactly the
\* parameter string sent in that request: the keys in the fixed order action,
\* devaddr, devcode, i18n, id, pn, salt, sn, source, with val appended last if
\* and only if the command is ctrlDevice, and the query string sent after
\* token and sign is that same string.
C12_SignedStringIsSentString ==
    \A j \in JobIds :
        seen[j].cmds > 0 =>
            LET q == seen[j].cmd.query IN
            /\ seen[j].cmd.sign.msg = q
            /\ SubSeq(q.keys, 1, 9) = FixedKeys
            /\ q.keys = IF q.action = "ctrlDevice"
                           THEN FixedKeys \o <<"val">> ELSE FixedKeys
            /\ (q.val # "absent") <=> (q.action = "ctrlDevice")

\* C12 witness: the second ctrlDevice request of an invocation, sent after a
\* token-invalid answer with a salt read later than the first.
C12_Witness ==
    /\ seen["set_solar_job"].cmds = 2
    /\ seen["set_solar_job"].cmd.query.keys = FixedKeys \o <<"val">>
    /\ seen["set_solar_job"].cmd.query.val = "1"
    /\ seen["set_solar_job"].cmd.sign.msg.salt = 1
    /\ pc["set_solar_job"] = "done"

\* C13: the salt is unique per request: no two command requests of the
\* client carry the same salt value; here, the latest requests of two jobs
\* that overlap.
C13_SaltUniquePerRequest ==
    \A j, k \in JobIds :
        (j # k /\ seen[j].cmds > 0 /\ seen[k].cmds > 0) =>
            seen[j].cmd.query.salt # seen[k].cmd.query.salt

\* C17: when jobs overlap, a job never observes a half-updated session: for
\* every command request sent, the token in the request and the key that
\* signed it were stored by one and the same successful login (the token and
\* the key of login number n are both n).
C17_TokenAndKeyOfOneLogin ==
    \A j \in JobIds :
        seen[j].cmds > 0 =>
            /\ Truthy(seen[j].cmd.token)
            /\ seen[j].cmd.token = seen[j].cmd.sign.key

\* The token of one login with the key of another, both non-empty, in one
\* command request.
C17_MixedSession ==
    \E j \in JobIds :
        /\ seen[j].cmds > 0
        /\ Truthy(seen[j].cmd.token)
        /\ Truthy(seen[j].cmd.sign.key)
        /\ seen[j].cmd.token # seen[j].cmd.sign.key

\* The step in which job j receives the answer to a command request, the
\* answer being a network or HTTP error or JSON with an err other than 10005.
ReceivesOtherThanInvalid(j) ==
    /\ pc[j] = "recv"
    /\ pc'[j] # "recv"
    /\ \/ seen'[j].resp.kind = "neterr"
       \/ seen'[j].resp.kind = "json" /\ seen'[j].resp.err # 10005

\* C18: only the token-invalid code touches the session: when a command
\* request ends in a network or HTTP error or in a JSON response whose err is
\* anything other than 10005 (zero included), _send_signed_command leaves
\* token and key unchanged, performs no login and no further command request,
\* and returns None for the error and the response otherwise.
C18_OtherAnswersLeaveSession ==
    [][ \A j \in JobIds :
          ReceivesOtherThanInvalid(j) =>
              /\ token' = token
              /\ key' = key
              /\ pc'[j] = "done"
              /\ depth'[j] = depth[j]
              /\ seen'[j].logins = seen[j].logins
              /\ seen'[j].cmds = seen[j].cmds
              /\ result'[j] = IF seen'[j].resp.kind = "neterr"
                                THEN "None" ELSE "data" ]_vars

\* C18 witness: a job whose only command request was answered with a non-zero
\* err other than 10005 has returned the response, the session as the
\* module's login left it.
C18_Witness ==
    \E j \in JobIds :
        /\ pc[j] = "done"
        /\ seen[j].resp = [kind |-> "json", err |-> 1]
        /\ seen[j].cmds = 1
        /\ seen[j].logins = 0
        /\ result[j] = "data"
        /\ token = 1
        /\ key = 1

\* C20: when DESS_USERNAME or DESS_PASSWORD is not set, no API client is
\* created and every scheduled job returns without sending a login or a
\* command request, each time it fires, for the whole life of the process.
C20_NoCredentialsNoRequests ==
    (DESS_USERNAME = "" \/ DESS_PASSWORD = "") =>
        /\ ~api_client
        /\ token = NoneValue
        /\ key = NoneValue
        /\ issued = 0
        /\ history.attempts = 0
        /\ pc["main"] \in {"boot", "done"}
        /\ seen["main"].logins = 0
        /\ \A j \in JobIds :
              /\ pc[j] \in {"idle", "done"}
              /\ pc[j] = "done" => result[j] = "skipped"
              /\ seen[j].logins = 0
              /\ seen[j].cmds = 0

\* C20 witness: with the user name set and the password unset, the third
\* firing of the scheduler has returned at once.
C20_Witness ==
    /\ DESS_USERNAME # ""
    /\ DESS_PASSWORD = ""
    /\ fired = 3
    /\ pc["read_status_job"] = "done"
    /\ result["read_status_job"] = "skipped"
    /\ history.attempts = 0

(***************************************************************************)
(* Claims about both programs, checked under SpecBoth.                     *)
(***************************************************************************)
\* C14: every request the programs send is one of the two supported actions
\* with the right value: set-solar sends ctrlDevice with val = 1, set-sbu
\* sends ctrlDevice with val = 2, read-status sends queryDeviceCtrlValue with
\* no val, and no ctrlDevice request carries a val outside {1, 2}; in the
\* jobs of app.py and in the actions of inverter_control.py.
C14_SupportedActionRightValue ==
    /\ \A j \in JobIds :
          seen[j].cmds > 0 =>
              LET q == seen[j].cmd.query
                  hasValKey == \E i \in 1..Len(q.keys) : q.keys[i] = "val"
              IN
              /\ j = "set_solar_job" =>
                    (q.action = "ctrlDevice" /\ q.val = "1" /\ hasValKey)
              /\ j = "set_sbu_job" =>
                    (q.action = "ctrlDevice" /\ q.val = "2" /\ hasValKey)
              /\ j = "read_status_job" =>
                    ( /\ q.action = "queryDeviceCtrlValue"
                      /\ q.val = "absent"
                      /\ ~hasValKey )
              /\ q.action = "ctrlDevice" => q.val \in {"1", "2"}
    /\ wire > 0 =>
          /\ action_to_run = "set-solar" =>
                (get_url.action = "ctrlDevice" /\ get_url.val = "1")
          /\ action_to_run = "set-sbu" =>
                (get_url.action = "ctrlDevice" /\ get_url.val = "2")
          /\ action_to_run = "read-status" =>
                (get_url.action = "queryDeviceCtrlValue" /\ get_url.val = "absent")
          /\ get_url.action = "ctrlDevice" => get_url.val \in {"1", "2"}
          /\ get_url.token = INVERTER_TOKEN

\* C14 witness: inverter_control.py set-sbu has put its second GET on the
\* wire, after a backoff sleep, with val = 2.
C14_Witness ==
    /\ action_to_run = "set-sbu"
    /\ calls = 2
    /\ sleeps = 1
    /\ get_url.action = "ctrlDevice"
    /\ get_url.val = "2"

\* C14 witness in app.py: set_sbu_job has sent ctrlDevice with val = 2.
C14_WitnessApp ==
    /\ seen["set_sbu_job"].cmds = 1
    /\ seen["set_sbu_job"].cmd.query.action = "ctrlDevice"
    /\ seen["set_sbu_job"].cmd.query.val = "2"

====
